---------------------------- MODULE Spec2Model ----------------------------
(***************************************************************************)
(* A model of nanojekyll's build pipeline (nanojekyll/nanojekyll.py):      *)
(* read_file, process_file and build_site.                                 *)
(*                                                                         *)
(* Text the program takes apart (file names, paths, file contents) is      *)
(* modelled character by character, as a sequence of one-character        *)
(* strings; pathlib paths are modelled by their str(). Text it only stores *)
(* and compares (dictionary keys, the paths written) is a TLA+ string.     *)
(* Indices handed to Find/Slice are Python's (0-based, negative = from the *)
(* end), so the code's arithmetic on them is kept as written.              *)
(***************************************************************************)
EXTENDS Integers, Sequences, FiniteSets, TLC

(***************************************************************************)
(* Python str and pathlib primitives                                       *)
(***************************************************************************)

\* The least / greatest member of a set of indices, or none when it is empty.
LowestOr(hits, none) == IF hits = {} THEN none ELSE CHOOSE n \in hits : \A m \in hits : n <= m

HighestOr(hits, none) == IF hits = {} THEN none ELSE CHOOSE n \in hits : \A m \in hits : n >= m

\* str.find(sub, start): lowest 0-based index >= start where sub occurs, else -1.
Find(s, sub, start) ==
    LowestOr({n \in start..(Len(s) - Len(sub)) : SubSeq(s, n + 1, n + Len(sub)) = sub}, -1)

\* str.rfind(sub): highest 0-based index where sub occurs, else -1.
RFind(s, sub) ==
    HighestOr({n \in 0..(Len(s) - Len(sub)) : SubSeq(s, n + 1, n + Len(sub)) = sub}, -1)

\* `sub in s`.
Contains(s, sub) == Find(s, sub, 0) >= 0

\* How Python clamps a slice bound i for a string of length n.
SliceBound(i, n) ==
    IF i < 0 THEN (IF i + n < 0 THEN 0 ELSE i + n)
    ELSE IF i > n THEN n ELSE i

\* s[a:b]
Slice(s, a, b) == SubSeq(s, SliceBound(a, Len(s)) + 1, SliceBound(b, Len(s)))

\* s[a:]
SliceFrom(s, a) == SubSeq(s, SliceBound(a, Len(s)) + 1, Len(s))

Whitespace == {" ", "\n", "\t", "\r"}

\* str.strip()
Strip(s) ==
    SubSeq(s, LowestOr({n \in 1..Len(s) : s[n] \notin Whitespace}, 1),
              HighestOr({n \in 1..Len(s) : s[n] \notin Whitespace}, 0))

\* The m-th of the positions cuts of a string of length n; position 0 comes
\* before them and n + 1 after.
Cut(cuts, n, m) ==
    IF m = 0 THEN 0
    ELSE IF m > Cardinality(cuts) THEN n + 1
    ELSE CHOOSE c \in cuts : Cardinality({x \in cuts : x < c}) = m - 1

\* The pieces of s between the positions cuts.
SplitAt(s, cuts) ==
    [m \in 1..(Cardinality(cuts) + 1) |->
        SubSeq(s, Cut(cuts, Len(s), m - 1) + 1, Cut(cuts, Len(s), m) - 1)]

\* str.split(sep) for a one-character sep.
Split(s, sep) == SplitAt(s, {n \in 1..Len(s) : <<s[n]>> = sep})

\* A character sequence as a TLA+ string.
Str(s) ==
    LET str[n \in 0..Len(s)] == IF n = 0 THEN "" ELSE str[n - 1] \o s[n]
    IN str[Len(s)]

\* PurePath.name: the final path component.
PathName(p) == SliceFrom(p, RFind(p, <<"/">>) + 1)

\* The suffix of a final component whose last dot is at index dot.
SuffixAt(name, dot) ==
    IF 0 < dot /\ dot < Len(name) - 1 THEN SliceFrom(name, dot) ELSE <<>>

\* PurePath.suffix: the final component's last "."-part, if the dot is neither
\* its first nor its last character.
PathSuffix(p) == SuffixAt(PathName(p), RFind(PathName(p), <<".">>))

\* PurePath.stem
PathStem(p) == Slice(PathName(p), 0, Len(PathName(p)) - Len(PathSuffix(p)))

\* PurePath.with_suffix(suffix)
WithSuffix(p, suffix) == Slice(p, 0, Len(p) - Len(PathSuffix(p))) \o suffix

\* PurePath.parent
PathParent(p) == IF RFind(p, <<"/">>) < 0 THEN <<".">> ELSE Slice(p, 0, RFind(p, <<"/">>))

\* PurePath.__truediv__: an absolute right operand replaces the left one.
Join(a, b) == IF b # <<>> /\ Head(b) = "/" THEN b ELSE a \o <<"/">> \o b

(***************************************************************************)
(* The libraries read_file calls                                           *)
(***************************************************************************)

\* One line of a block mapping, "key: value" or "key:"; ok = FALSE otherwise.
YamlEntry(key, rest) ==
    IF key = <<>> THEN [ok |-> FALSE, key |-> "", value |-> <<>>]
    ELSE IF rest = <<>> THEN [ok |-> TRUE, key |-> Str(key), value |-> <<>>]
    ELSE IF Head(rest) = " " THEN [ok |-> TRUE, key |-> Str(key), value |-> Strip(rest)]
    ELSE [ok |-> FALSE, key |-> "", value |-> <<>>]

YamlLine(line) ==
    IF Find(line, <<":">>, 0) <= 0 THEN YamlEntry(<<>>, <<>>)
    ELSE YamlEntry(Slice(line, 0, Find(line, <<":">>, 0)), SliceFrom(line, Find(line, <<":">>, 0) + 1))

NotBlank(line) == line # <<>>

StripAll(lines) == [n \in 1..Len(lines) |-> Strip(lines[n])]

\* The document whose lines parse to `parsed`, of which `entries` are mapping lines.
LoadParsed(parsed, entries) ==
    IF parsed = <<>> THEN [kind |-> "none", value |-> <<>>]
    ELSE IF entries = DOMAIN parsed
         THEN [kind  |-> "dict",
               value |-> [k \in {parsed[n].key : n \in entries} |->
                            parsed[CHOOSE n \in entries :
                                     /\ parsed[n].key = k
                                     /\ \A m \in entries : parsed[m].key = k => m <= n].value]]
    ELSE IF entries = {} THEN [kind |-> "scalar", value |-> <<>>]
    ELSE [kind |-> "raise", value |-> <<>>]

ParseLines(parsed) == LoadParsed(parsed, {n \in 1..Len(parsed) : parsed[n].ok})

LoadLines(lines) == ParseLines([n \in 1..Len(lines) |-> YamlLine(lines[n])])

\* yaml.safe_load on a flat block ("key: value" lines, plain scalars):
\*   kind "none"   - an empty document loads as None,
\*   kind "dict"   - a block mapping; value[k] is the scalar's text (a later
\*                   duplicate key wins),
\*   kind "scalar" - a plain scalar loads as a str,
\*   kind "raise"  - a mapping line mixed with a plain line is a YAMLError.
SafeLoad(text) == LoadLines(SelectSeq(StripAll(Split(text, <<"\n">>)), NotBlank))

\* Scalars that YAML 1.1 resolves to False, 0 or None: the values Python's `not` accepts.
FalsyScalars ==
    { <<"f","a","l","s","e">>, <<"F","a","l","s","e">>, <<"F","A","L","S","E">>, <<"n","o">>, <<"N","o">>, <<"N","O">>, <<"o","f","f">>, <<"O","f","f">>,
      <<"O","F","F">>, <<"0">>, <<"~">>, <<"n","u","l","l">>, <<"N","u","l","l">>, <<"N","U","L","L">>, <<>> }

\* header.get(key, True), as a truth value.
HeaderGet(header, key) ==
    IF key \in DOMAIN header THEN header[key] \notin FalsyScalars ELSE TRUE

\* markdown.markdown on plain text with no markup: one paragraph, or nothing
\* for blank input.
Markdown(text) ==
    IF Strip(text) = <<>> THEN <<>> ELSE <<"<","p",">">> \o Strip(text) \o <<"<","/","p",">">>

(***************************************************************************)
(* The site on disk: the working directory the build runs in               *)
(***************************************************************************)

BASE_PATH     == <<"/","w">>
CONFIG_PATH   == Join(BASE_PATH, <<"_","c","o","n","f","i","g",".","y","m","l">>)
SITE_PATH     == Join(BASE_PATH, <<"_","s","i","t","e">>)
INCLUDES_PATH == Join(BASE_PATH, <<"_","i","n","c","l","u","d","e","s">>)
LAYOUTS_PATH  == Join(BASE_PATH, <<"_","l","a","y","o","u","t","s">>)
ROOT_PATH     == Join(BASE_PATH, <<"_","r","o","o","t">>)

\* The files below BASE_PATH (path relative to it, text); _config.yml, whose
\* parsed form is the variable config, and the output directory are left out.
SourceTree ==
    { <<<<"_","l","a","y","o","u","t","s","/","b","a","s","e",".","h","t","m","l">>,  <<"<","x",">","{","{","c","o","n","t","e","n","t","}","}","<","/","x",">">>>>,
      <<<<"_","i","n","c","l","u","d","e","s","/","n","a","v",".","h","t","m","l">>,  <<"<","n","a","v","/",">">>>>,
      <<<<"_","r","o","o","t","/","i","n","d","e","x",".","h","t","m","l">>,    <<"s","t","a","t","i","c">>>>,
      <<<<"_","r","o","o","t","/","r","o","b","o","t","s",".","t","x","t">>,    <<"s","t","a","t","i","c">>>>,
      <<<<"a","s","s","e","t","s","/","l","o","g","o",".","p","n","g">>,     <<"s","t","a","t","i","c">>>>,
      <<<<"s","t","y","l","e",".","c","s","s">>,           <<"s","t","a","t","i","c">>>>,
      <<<<"i","n","d","e","x",".","m","d">>,            <<"-","-","-","\n","l","a","y","o","u","t",":"," ","b","a","s","e","\n","-","-","-","\n","h","i">>>>,
      <<<<"a","b","o","u","t",".","h","t","m","l">>,          <<"h","i">>>>,
      <<<<"_","p","o","s","t","s","/","a",".","h","t","m","l">>,       <<"-","-","-","\n","i","d","x",":"," ","2","\n","l","a","y","o","u","t",":"," ","b","a","s","e","\n","-","-","-","\n","h","i">>>>,
      <<<<"_","p","o","s","t","s","/","b",".","m","d">>,         <<"-","-","-","\n","i","d","x",":"," ","1","\n","-","-","-","\n","h","i">>>>,
      <<<<"_","p","o","s","t","s","/","c",".","h","t","m","l">>,       <<"-","-","-","\n","p","r","o","c","e","s","s","_","f","i","l","e",":"," ","f","a","l","s","e","\n","-","-","-","\n","h","i">>>>,
      <<<<"_","p","o","s","t","s","/","d",".","m","d">>,         <<"-","-","-","\n","l","a","y","o","u","t",":"," ","n","o","p","e","\n","-","-","-","\n","h","i">>>>,
      <<<<"_","d","o","c","s","/","e",".","h","t","m","l">>,        <<"-","-","-","\n","p","a","t","h",":"," ","p","/","q","\n","-","-","-","\n"," ","\n">>>>,
      <<<<"_","d","o","c","s","/","r","e","i","n","d","e","x",".","h","t","m","l">>,  <<"h","i">>>>,
      <<<<"_","d","o","c","s","/","f",".","h","t","m","l">>,        <<"-","-","-","\n","t","i","t","l","e",":"," ","x","\n">>>>,
      <<<<"_","d","o","c","s","/","g",".","m","d">>,          <<"-","-","-","\n","c","r","e","a","t","e","_","p","a","g","e",":"," ","f","a","l","s","e","\n","-","-","-","\n","h","i">>>> }

\* Absolute path |-> text.
Disk == [p \in {Join(BASE_PATH, f[1]) : f \in SourceTree} |->
            (CHOOSE f \in SourceTree : Join(BASE_PATH, f[1]) = p)[2]]

IsFile(p) == p \in DOMAIN Disk

\* The files below directory p.
Below(p) == {q \in DOMAIN Disk : Slice(q, 0, Len(p) + 1) = p \o <<"/">>}

IsDir(p) == Below(p) # {}

\* os.listdir(p): the names of p's entries (in no particular order).
ListDir(p) ==
    {Split(SliceFrom(q, Len(p) + 1), <<"/">>)[1] : q \in Below(p)}
        \cup (IF p = BASE_PATH THEN {<<"_","c","o","n","f","i","g",".","y","m","l">>, <<"_","s","i","t","e">>} ELSE {})

\* The orders in which os.listdir may return the names S.
Orders(S) ==
    {o \in [1..Cardinality(S) -> S] : \A m, n \in 1..Cardinality(S) : o[m] = o[n] => m = n}

(***************************************************************************)
(* read_file                                                               *)
(***************************************************************************)

delim == <<"-","-","-">>

\* read_file ends in an exception.
Raised == [raised |-> TRUE, header_kind |-> "none", header |-> <<>>, content |-> <<>>]

\* yaml.safe_load raised, or read_file returns the header and the content.
Loaded(yaml, content) ==
    IF yaml.kind = "raise" THEN Raised
    ELSE [raised |-> FALSE, header_kind |-> yaml.kind, header |-> yaml.value,
          content |-> content]

\* Lines 82-97 for the text of a file whose suffix is `suffix`.
Parse(text, suffix, a, b) ==
    IF a < 0
    THEN [raised |-> FALSE, header_kind |-> "dict", header |-> <<>>,
          content |-> IF suffix = <<".","m","d">> THEN Markdown(text) ELSE text]
    ELSE Loaded(SafeLoad(Slice(text, a + Len(delim), b)),
                IF suffix = <<".","m","d">> THEN Markdown(SliceFrom(text, b + Len(delim)))
                ELSE SliceFrom(text, b + Len(delim)))

read_file(path) ==
    IF PathSuffix(path) # <<".","h","t","m","l">> /\ PathSuffix(path) # <<".","m","d">> THEN Raised
    ELSE IF ~IsFile(path) THEN Raised
    ELSE Parse(Disk[path], PathSuffix(path), Find(Disk[path], delim, 0),
               Find(Disk[path], delim, Find(Disk[path], delim, 0) + Len(delim)))

\* The disk does not change while a build runs, so what read_file returns for
\* each of its files is tabulated once.
Sources == [p \in DOMAIN Disk |-> read_file(p)]

ReadFile(path) == IF IsFile(path) THEN Sources[path] ELSE read_file(path)

(***************************************************************************)
(* The configurations a build is run on                                    *)
(***************************************************************************)

\* The most group entries and literal FileSpecs a configuration holds in all.
MaxEntries == 2

Root == "."

Groups == {<<"p","o","s","t","s">>, <<"d","o","c","s">>}

GroupDir(dirname) == Join(BASE_PATH, <<"_">> \o dirname)

\* What `files:` may name: the top-level sources, and per group its files and
\* the two wildcard tokens.
RootNames == {<<"i","n","d","e","x",".","m","d">>, <<"a","b","o","u","t",".","h","t","m","l">>, <<"s","t","y","l","e",".","c","s","s">>}

GroupEntries(dirname) == ListDir(GroupDir(dirname)) \cup {<<"*",".","h","t","m","l">>, <<"*",".","m","d">>}

\* A configuration is written down entry by entry; fresh starts a new mapping
\* for a group that the previous FileSpec already names.
Items ==
    [group : {Root}, name : RootNames, fresh : {FALSE}]
        \cup UNION {[group : {g}, name : GroupEntries(g), fresh : BOOLEAN] : g \in Groups}

RECURSIVE FileSpecs(_, _)
FileSpecs(flat, acc) ==
    IF flat = <<>> THEN acc
    ELSE
      LET it   == Head(flat)
          last == acc[Len(acc)]
      IN IF it.group = Root
         THEN FileSpecs(Tail(flat),
                        Append(acc, [kind |-> "str", name |-> it.name, entries |-> <<>>]))
         ELSE IF acc # <<>> /\ last.kind = "dict" /\ last.name = it.group /\ ~it.fresh
         THEN FileSpecs(Tail(flat),
                        [acc EXCEPT ![Len(acc)].entries = Append(@, it.name)])
         ELSE FileSpecs(Tail(flat),
                        Append(acc, [kind |-> "dict", name |-> it.group,
                                     entries |-> <<it.name>>]))

Configs == {FileSpecs(flat, <<>>) : flat \in UNION {[1..n -> Items] : n \in 0..MaxEntries}}

(***************************************************************************)
(* build_site                                                              *)
(***************************************************************************)

VARIABLES
    config_exists,  \* os.path.exists(CONFIG_PATH)
    config,         \* config["files"]: FileSpecs [kind, name, entries]
    pc,             \* where build_site is
    state,          \* state["includes"], state["layouts"]
    site,           \* site[dirname]: the group's listing, as references into files
    files,          \* the list `files`: records [name, path, header, content]
    unique_dict,    \* the current group's seen-set
    spec_i,         \* index of the FileSpec being scanned
    entry_i,        \* index of the group entry being scanned (0: group not begun)
    file_i,         \* index of the file being annotated / processed
    site_out,       \* the output tree: path |-> who last wrote it, [by, src]
    copied,         \* every (src, dst) the static copy has copied
    written         \* every (file index, dst) process_file has written, in order

vars == <<config_exists, config, pc, state, site, files, unique_dict, spec_i, entry_i, file_i,
          site_out, copied, written>>

EmptyDict == <<>>

\* d[key] = value
SetItem(d, key, value) == [x \in DOMAIN d \cup {key} |-> IF x = key THEN value ELSE d[x]]

Init ==
    /\ \/ config_exists = FALSE /\ config = <<>>
       \/ config_exists = TRUE /\ config \in Configs
    /\ pc = "start"
    /\ state = [includes |-> EmptyDict, layouts |-> EmptyDict]
    /\ site = EmptyDict
    /\ files = <<>>
    /\ unique_dict = {}
    /\ spec_i = 1
    /\ entry_i = 0
    /\ file_i = 1
    /\ site_out = EmptyDict
    /\ copied = {}
    /\ written = <<>>

\* Lines 163-170: stem |-> str(path) for the items of a template directory
\* (state["includes"] wraps the path in {"html": ...}).
Registry(dir) ==
    [s \in {Str(PathStem(n)) : n \in ListDir(dir)} |->
        Str(Join(dir, CHOOSE n \in ListDir(dir) : Str(PathStem(n)) = s))]

\* Lines 138-170: no configuration, no build; else load the template registries.
BuildStart ==
    /\ pc = "start"
    /\ IF ~config_exists
       THEN /\ pc' = "returned_false"
            /\ UNCHANGED state
       ELSE /\ pc' = "copy"
            /\ state' =
                 [includes |-> Registry(INCLUDES_PATH), layouts |-> Registry(LAYOUTS_PATH)]
    /\ UNCHANGED <<config_exists, config, site, files, unique_dict, spec_i, entry_i, file_i,
                   site_out, copied, written>>

\* excludes (line 174)
Excludes == {Join(BASE_PATH, config[n].name) : n \in {m \in 1..Len(config) : config[m].kind = "str"}}

\* A copy without the excludes of line 181.
CopyAll(src, dst) ==
    IF IsDir(src)
    THEN {[src |-> Str(q), dst |-> Str(dst \o SliceFrom(q, Len(src)))] : q \in Below(src)}
    ELSE IF IsFile(src) THEN {[src |-> Str(src), dst |-> Str(dst)]}
    ELSE {}

\* copy(src, dst) (lines 178-182), as the set of (src, dst) file copies it makes.
Copy(src, dst) ==
    IF IsDir(src)
    THEN {[src |-> Str(q), dst |-> Str(dst \o SliceFrom(q, Len(src)))] : q \in Below(src)}
    ELSE IF IsFile(src) /\ src \notin Excludes THEN {[src |-> Str(src), dst |-> Str(dst)]}
    ELSE {}

\* The loop over os.listdir(BASE_PATH) (lines 175-194).
StaticCopies ==
    UNION {
      LET path == Join(BASE_PATH, item) IN
      IF IsDir(path) /\ path = ROOT_PATH
      THEN UNION {Copy(Join(path, nested), Join(SITE_PATH, PathName(Join(path, nested))))
                    : nested \in ListDir(path)}
      ELSE IF item[1] = "_" THEN {}
      ELSE Copy(path, Join(SITE_PATH, PathName(path)))
      : item \in ListDir(BASE_PATH) }

\* What build_site does once it has scanned the FileSpecs before number n
\* and holds the file list fs: scan, annotate, or (nothing to render) report.
After(n, fs) ==
    IF n <= Len(config) THEN "scan" ELSE IF fs = <<>> THEN "report" ELSE "annotate"

\* The output trees a set of copies can leave: two entries copied to one
\* destination are copied in listdir order, which is arbitrary, so either stays.
RECURSIVE CopyOutcomes(_, _)
CopyOutcomes(copies, dsts) ==
    IF dsts = {} THEN {EmptyDict}
    ELSE
      LET d == CHOOSE d \in dsts : TRUE IN
      {SetItem(out, d, [by |-> "copy", src |-> c.src]) :
          out \in CopyOutcomes(copies, dsts \ {d}), c \in {c \in copies : c.dst = d}}

\* The static copy (lines 172-194).
CopyStatic ==
    /\ pc = "copy"
    /\ copied' = StaticCopies
    /\ site_out' \in CopyOutcomes(StaticCopies, {c.dst : c \in StaticCopies})
    /\ pc' = After(1, <<>>)
    /\ UNCHANGED <<config_exists, config, state, site, files, unique_dict, spec_i, entry_i, file_i, written>>

\* The record appended to `files` (lines 208-213, 231-236).
FileRecord(name, r) ==
    [name |-> name, path |-> WithSuffix(name, <<>>), header |-> r.header,
     content |-> r.content]

\* `header.get("process_file", True)` fails on a header that is no mapping
\* (an empty header block loads as None).
ReadFails(r) == r.raised \/ r.header_kind # "dict"

\* A scan without the check of lines 204 and 227.
NeverSkipped(header) == FALSE

\* Line 204 / 227: the file is to be skipped.
Skipped(header) == ~HeaderGet(header, "process_file")

\* A scan without the check of line 222.
NeverDuplicate(name, seen) == FALSE

\* Line 222: the name was seen before in this group.
IsDuplicate(name, seen) == Str(name) \in seen

\* A listing that grows at the front.
AddToListingFront(listing, ref) == <<ref>> \o listing

\* Line 240: site[dirname].append(header); ref is the header's file record.
AddToListing(listing, ref) == Append(listing, ref)

\* add_file (lines 220-240) on the scan's data st = [files, listing,
\* unique_dict, raised]; once an exception is raised nothing more runs.
add_file(st, dirname, item) ==
    LET name == dirname \o <<"/">> \o item
        r    == ReadFile(Join(BASE_PATH, <<"_">> \o name))
        seen == [st EXCEPT !.unique_dict = @ \cup {Str(name)}]
    IN IF st.raised THEN st
       ELSE IF IsDuplicate(name, st.unique_dict) THEN st
       ELSE IF ReadFails(r) THEN [seen EXCEPT !.raised = TRUE]
       ELSE IF Skipped(r.header) THEN seen
       ELSE [seen EXCEPT !.files = Append(@, FileRecord(name, r)),
                         !.listing = AddToListing(@, Len(st.files) + 1)]

RECURSIVE AddFiles(_, _, _)
AddFiles(st, dirname, items) ==
    IF items = <<>> THEN st
    ELSE AddFiles(add_file(st, dirname, Head(items)), dirname, Tail(items))

\* Lines 200-213: a literal FileSpec, a file directly inside the root directory.
ScanLiteral ==
    /\ pc = "scan"
    /\ config[spec_i].kind = "str"
    /\ LET r == ReadFile(Join(BASE_PATH, config[spec_i].name)) IN
       IF ReadFails(r)
       THEN /\ pc' = "raised"
            /\ UNCHANGED <<files, spec_i>>
       ELSE /\ files' = IF Skipped(r.header) THEN files
                        ELSE Append(files, FileRecord(config[spec_i].name, r))
            /\ spec_i' = spec_i + 1
            /\ pc' = After(spec_i + 1, files')
    /\ UNCHANGED <<config_exists, config, state, site, unique_dict, entry_i, file_i,
                   site_out, copied, written>>

\* Lines 214-218: a group FileSpec begins with an empty listing and seen-set.
ScanGroupBegin ==
    /\ pc = "scan"
    /\ config[spec_i].kind = "dict"
    /\ entry_i = 0
    /\ site' = SetItem(site, Str(config[spec_i].name), <<>>)
    /\ unique_dict' = {}
    /\ entry_i' = 1
    /\ UNCHANGED <<config_exists, config, pc, state, files, spec_i, file_i, site_out, copied, written>>

\* Lines 243-253: one group entry, a wildcard or a literal name.
ScanEntry ==
    /\ pc = "scan"
    /\ config[spec_i].kind = "dict"
    /\ entry_i > 0
    /\ LET dirname     == config[spec_i].name
           nested_item == config[spec_i].entries[entry_i]
           st          == [files |-> files, listing |-> site[Str(dirname)],
                           unique_dict |-> unique_dict, raised |-> FALSE]
           suffix      == <<".">> \o Split(nested_item, <<".">>)[Len(Split(nested_item, <<".">>))]
           matching    == {n \in ListDir(GroupDir(dirname)) : PathSuffix(n) = suffix}
           last        == entry_i = Len(config[spec_i].entries)
       IN \E items \in (IF nested_item \in {<<"*",".","h","t","m","l">>, <<"*",".","m","d">>}
                        THEN Orders(matching) ELSE {<<nested_item>>}) :
            LET st2 == AddFiles(st, dirname, items) IN
            /\ files' = st2.files
            /\ site' = [site EXCEPT ![Str(dirname)] = st2.listing]
            /\ unique_dict' = st2.unique_dict
            /\ IF st2.raised
               THEN pc' = "raised" /\ UNCHANGED <<spec_i, entry_i>>
               ELSE /\ spec_i' = IF last THEN spec_i + 1 ELSE spec_i
                    /\ entry_i' = IF last THEN 0 ELSE entry_i + 1
                    /\ pc' = After(spec_i', files')
    /\ UNCHANGED <<config_exists, config, state, file_i, site_out, copied, written>>

\* Lines 257-260: the value of header["url"].
Url(file) ==
    IF "path" \in DOMAIN file.header THEN file.header["path"]
    ELSE WithSuffix(file.name, <<>>)

\* Lines 255-260, one file: the header gets its url.
AnnotateUrl ==
    /\ pc = "annotate"
    /\ files' = [files EXCEPT ![file_i].header = SetItem(@, "url", Url(files[file_i]))]
    /\ file_i' = IF file_i < Len(files) THEN file_i + 1 ELSE 1
    /\ pc' = IF file_i < Len(files) THEN "annotate" ELSE "render"
    /\ UNCHANGED <<config_exists, config, state, site, unique_dict, spec_i, entry_i,
                   site_out, copied, written>>

(***************************************************************************)
(* process_file                                                            *)
(***************************************************************************)

\* A render pass that leaves out the sources with a blank body.
CreatesPageWithBody(file) ==
    HeaderGet(file.header, "create_page") /\ Strip(file.content) # <<>>

\* Line 100: the file gets a page.
CreatesPage(file) == HeaderGet(file.header, "create_page")

\* A render pass that takes every layout to exist.
NoLayoutMissing(file) == FALSE

\* Lines 116-118: state["layouts"][file["header"]["layout"]] raises KeyError.
LayoutMissing(file) ==
    /\ "layout" \in DOMAIN file.header
    /\ Str(file.header["layout"]) \notin DOMAIN state.layouts

\* Line 128: the path is taken to be an index already.
IsIndex(outpath) == Contains(outpath, <<"i","n","d","e","x">>)

\* Lines 121-132: the output path.
OutPath(file) ==
    LET base == IF "path" \in DOMAIN file.header
                THEN Join(Join(SITE_PATH, file.header["path"]), <<"i","n","d","e","x">>)
                ELSE IF ~IsIndex(Join(SITE_PATH, file.path))
                     THEN Join(Join(SITE_PATH, file.path), <<"i","n","d","e","x">>)
                     ELSE Join(SITE_PATH, file.path)
    IN WithSuffix(base, <<".","h","t","m","l">>)

\* Lines 262-268, one file: process_file(state, site, files[file_i]). The text
\* Liquid renders is not modelled; the tree records who wrote each path.
ProcessFile ==
    /\ pc = "render"
    /\ IF ~CreatesPage(files[file_i])
       THEN /\ UNCHANGED <<site_out, written>>
            /\ file_i' = file_i + 1
            /\ pc' = IF file_i < Len(files) THEN "render" ELSE "report"
       ELSE IF LayoutMissing(files[file_i])
       THEN /\ pc' = "raised"
            /\ UNCHANGED <<site_out, written, file_i>>
       ELSE /\ site_out' = SetItem(site_out, Str(OutPath(files[file_i])),
                                   [by |-> "render", src |-> Str(files[file_i].name)])
            /\ written' = Append(written, [file |-> file_i,
                                            dst  |-> Str(OutPath(files[file_i]))])
            /\ file_i' = file_i + 1
            /\ pc' = IF file_i < Len(files) THEN "render" ELSE "report"
    /\ UNCHANGED <<config_exists, config, state, site, files, unique_dict, spec_i, entry_i, copied>>

\* Lines 270-272: the build reports success.
Report ==
    /\ pc = "report"
    /\ pc' = "returned_true"
    /\ UNCHANGED <<config_exists, config, state, site, files, unique_dict, spec_i, entry_i, file_i,
                   site_out, copied, written>>

Next ==
    \/ BuildStart
    \/ CopyStatic
    \/ ScanLiteral
    \/ ScanGroupBegin
    \/ ScanEntry
    \/ AnnotateUrl
    \/ ProcessFile
    \/ Report

Spec == Init /\ [][Next]_vars

(***************************************************************************)
(* What the claims speak of                                                *)
(***************************************************************************)

FileIds == 1..Len(files)

\* A header sets key to a value Python takes for false.
SetsFalse(header, key) == key \in DOMAIN header /\ header[key] \in FalsyScalars

\* The file record came from a group FileSpec (its logical name is <group>/<file>).
InGroup(n) == Contains(files[n].name, <<"/">>)

GroupOf(n) == Str(Split(files[n].name, <<"/">>)[1])

\* The file records a group's listing refers to.
Listed(g) == {site[g][m] : m \in 1..Len(site[g])}

\* The output files written for file record n.
WritesOf(n) == {m \in 1..Len(written) : written[m].file = n}

\* The scan pass is over (the build went on, or failed while rendering).
ScanDone ==
    \/ pc \in {"annotate", "render", "report", "returned_true"}
    \/ pc = "raised" /\ spec_i > Len(config)

\* The logical names one group entry resolves to.
EntryNames(dirname, entry) ==
    IF entry \in {<<"*",".","h","t","m","l">>, <<"*",".","m","d">>}
    THEN {dirname \o <<"/">> \o f : f \in {f \in ListDir(GroupDir(dirname)) :
                                          <<"*">> \o PathSuffix(f) = entry}}
    ELSE {dirname \o <<"/">> \o entry}

\* EntryNames, tabulated for every group and every entry a configuration can hold.
Resolves == [d \in Groups |-> [e \in GroupEntries(d) |-> EntryNames(d, e)]]

\* The FileSpecs of the configuration with an entry that resolves to name.
NamedBy(name) ==
    {s \in 1..Len(config) :
        IF config[s].kind = "str" THEN config[s].name = name
        ELSE \E e \in 1..Len(config[s].entries) :
                name \in Resolves[config[s].name][config[s].entries[e]]}

\* The source file behind a logical name.
SourcePath(name) ==
    IF Contains(name, <<"/">>) THEN Join(BASE_PATH, <<"_">> \o name) ELSE Join(BASE_PATH, name)

(***************************************************************************)
(* C1                                                                      *)
(***************************************************************************)

\* C1: within one directory group (one group mapping of the configuration),
\* however many entries resolve to the same logical name, only the first is
\* kept: the file list holds at most one record of that name per FileSpec
\* naming it, no listing holds two headers of one name, and no record is
\* written twice.
C1_FirstOccurrenceOnly ==
    /\ \A n \in FileIds :
          Cardinality({m \in FileIds : files[m].name = files[n].name})
              <= Cardinality(NamedBy(files[n].name))
    /\ \A g \in DOMAIN site : \A a, b \in 1..Len(site[g]) :
          files[site[g][a]].name = files[site[g][b]].name => a = b
    /\ \A n \in FileIds : Cardinality(WritesOf(n)) <= 1

\* A finished build of a group whose two entries resolve to one name, kept once.
C1_Witness ==
    /\ pc = "returned_true"
    /\ \E s \in 1..Len(config), n \in FileIds :
          /\ config[s].kind = "dict"
          /\ Len(config[s].entries) >= 2
          /\ files[n].name \in EntryNames(config[s].name, config[s].entries[1])
          /\ files[n].name \in EntryNames(config[s].name, config[s].entries[2])
          /\ Cardinality(NamedBy(files[n].name)) = 1
          /\ n \in Listed(Str(config[s].name))
          /\ WritesOf(n) # {}

(***************************************************************************)
(* C2                                                                      *)
(***************************************************************************)

\* C2 as stated: a source whose header sets process_file or create_page to
\* false gets no output file and no entry in its group's listing.
C2_Original ==
    \A n \in FileIds :
        SetsFalse(files[n].header, "process_file") \/ SetsFalse(files[n].header, "create_page")
            => /\ WritesOf(n) = {}
               /\ \A g \in DOMAIN site : n \notin Listed(g)

\* C2 amended: a source that sets process_file to false is dropped by the scan
\* (no file record, so no listing entry and no output file); a source that sets
\* create_page to false gets no output file (its header is listed all the same).
C2_Amended ==
    /\ \A n \in FileIds : ~SetsFalse(files[n].header, "process_file")
    /\ \A n \in FileIds : SetsFalse(files[n].header, "create_page") => WritesOf(n) = {}
    /\ \A p \in DOMAIN site_out : site_out[p].by = "render" =>
          \E n \in FileIds : /\ Str(files[n].name) = site_out[p].src
                             /\ ~SetsFalse(files[n].header, "create_page")

\* A finished build that scanned a process_file: false source and kept a
\* create_page: false one.
C2_Witness ==
    /\ pc = "returned_true"
    /\ \E s \in 1..Len(config) : \E e \in 1..Len(config[s].entries) :
          \E name \in EntryNames(config[s].name, config[s].entries[e]) :
             /\ IsFile(SourcePath(name))
             /\ SetsFalse(read_file(SourcePath(name)).header, "process_file")
    /\ \E n \in FileIds : /\ SetsFalse(files[n].header, "create_page")
                          /\ n \in Listed(GroupOf(n))

(***************************************************************************)
(* C3                                                                      *)
(***************************************************************************)

Digit == [c \in {"0", "1", "2", "3", "4", "5", "6", "7", "8", "9"} |->
            CASE c = "0" -> 0 [] c = "1" -> 1 [] c = "2" -> 2 [] c = "3" -> 3
              [] c = "4" -> 4 [] c = "5" -> 5 [] c = "6" -> 6 [] c = "7" -> 7
              [] c = "8" -> 8 [] c = "9" -> 9]

HasIdx(n) == "idx" \in DOMAIN files[n].header /\ Len(files[n].header["idx"]) = 1

\* The (one-digit) ordering index of file record n.
Idx(n) == Digit[files[n].header["idx"][1]]

\* C3 as stated: after the scan each listing is in ascending index order.
C3_Original ==
    ScanDone =>
        \A g \in DOMAIN site : \A a, b \in 1..Len(site[g]) :
            a < b /\ HasIdx(site[g][a]) /\ HasIdx(site[g][b])
                => Idx(site[g][a]) <= Idx(site[g][b])

\* C3 amended: each listing is in scan order, the order of the file list,
\* whatever ordering index the headers carry.
C3_Amended ==
    \A g \in DOMAIN site : \A a, b \in 1..Len(site[g]) :
        a < b => site[g][a] < site[g][b]

\* A scanned group whose listing holds a higher index before a lower one.
C3_Witness ==
    /\ ScanDone
    /\ \E g \in DOMAIN site : \E a, b \in 1..Len(site[g]) :
          /\ a < b
          /\ HasIdx(site[g][a]) /\ HasIdx(site[g][b])
          /\ Idx(site[g][a]) > Idx(site[g][b])

(***************************************************************************)
(* C4                                                                      *)
(***************************************************************************)

\* C4: a source with an opening "---" and no closing one is never read into
\* a header and a body: reading it fails, so no file record exists for it.
C4_Claim ==
    \A n \in FileIds :
        LET text == Disk[SourcePath(files[n].name)]
            a    == Find(text, <<"-","-","-">>, 0)
        IN a >= 0 => Find(text, <<"-","-","-">>, a + 3) >= 0

(***************************************************************************)
(* C5                                                                      *)
(***************************************************************************)

\* The body of file record n is empty or whitespace only.
Blank(n) == Strip(files[n].content) = <<>>

\* C5 as stated: a source with a blank body gets no output file and no
\* listing entry.
C5_Original ==
    \A n \in FileIds :
        Blank(n) => /\ WritesOf(n) = {}
                    /\ \A g \in DOMAIN site : n \notin Listed(g)

\* C5 amended: a source with a blank body is read without error and is kept
\* like any other: the step that adds its record adds its header to the
\* group's listing, and a build that reports success has written its output
\* file (unless create_page is false).
C5_Amended ==
    /\ [][\A n \in (Len(files) + 1)..Len(files') :
             Strip(files'[n].content) = <<>> /\ Contains(files'[n].name, <<"/">>)
                 => \E m \in 1..Len(site'[Str(Split(files'[n].name, <<"/">>)[1])]) :
                       site'[Str(Split(files'[n].name, <<"/">>)[1])][m] = n]_vars
    /\ [](pc \in {"report", "returned_true"} =>
             \A n \in FileIds :
                 Blank(n) /\ ~SetsFalse(files[n].header, "create_page") => WritesOf(n) # {})

\* A finished build that kept, listed and wrote a source with a blank body.
C5_Witness ==
    /\ pc = "returned_true"
    /\ \E n \in FileIds : /\ Blank(n)
                          /\ InGroup(n)
                          /\ n \in Listed(GroupOf(n))
                          /\ WritesOf(n) # {}

(***************************************************************************)
(* C6                                                                      *)
(***************************************************************************)

\* The destination C6 gives a rendered source.
ExpectedOut(file) ==
    IF "path" \in DOMAIN file.header
    THEN SITE_PATH \o <<"/">> \o file.header["path"] \o <<"/","i","n","d","e","x",".","h","t","m","l">>
    ELSE IF PathName(file.path) = <<"i","n","d","e","x">>
         THEN SITE_PATH \o <<"/">> \o file.path \o <<".","h","t","m","l">>
         ELSE SITE_PATH \o <<"/">> \o file.path \o <<"/","i","n","d","e","x",".","h","t","m","l">>

\* C6: every rendered source is written to <override>/index.html, else to
\* <logical path>.html when the path's final component is `index`, else to
\* <logical path>/index.html.
C6_Claim ==
    \A m \in 1..Len(written) : written[m].dst = Str(ExpectedOut(files[written[m].file]))

(***************************************************************************)
(* C7                                                                      *)
(***************************************************************************)

\* C7 as stated: the static copy writes nothing to a path the render pipeline
\* writes for a literal FileSpec.
C7_Original ==
    \A m \in 1..Len(written) :
        ~InGroup(written[m].file) => \A c \in copied : c.dst # written[m].dst

\* C7 amended: the static copy never copies a top-level file that the
\* configuration lists as a literal FileSpec (another entry's copy may still
\* land on the path the file is rendered to).
C7_Amended ==
    \A c \in copied : \A s \in 1..Len(config) :
        config[s].kind = "str" => c.src # Str(Join(BASE_PATH, config[s].name))

\* The copy is done, other top-level files were copied, and a literal
\* FileSpec names a top-level file.
C7_Witness ==
    /\ pc = "returned_true"
    /\ \E c \in copied : c.src = Str(Join(BASE_PATH, <<"a","b","o","u","t",".","h","t","m","l">>))
    /\ \E s \in 1..Len(config) :
          /\ config[s].kind = "str"
          /\ IsFile(Join(BASE_PATH, config[s].name))
          /\ \E n \in FileIds : files[n].name = config[s].name /\ WritesOf(n) # {}

(***************************************************************************)
(* C8                                                                      *)
(***************************************************************************)

\* The layouts on disk.
LayoutNames == {Str(PathStem(f)) : f \in ListDir(LAYOUTS_PATH)}

\* File record n is to get a page and names a layout that does not exist.
NamesMissingLayout(n) ==
    /\ ~SetsFalse(files[n].header, "create_page")
    /\ "layout" \in DOMAIN files[n].header
    /\ Str(files[n].header["layout"]) \notin LayoutNames

C9_Claim ==
    pc = "render" =>
        \A n \in FileIds :
            /\ InGroup(n) => n \in Listed(GroupOf(n))
            /\ "url" \in DOMAIN files[n].header
            /\ files[n].header["url"] =
                  IF "path" \in DOMAIN files[n].header THEN files[n].header["path"]
                  ELSE Slice(files[n].name, 0, Len(files[n].name) - Len(PathSuffix(files[n].name)))

(***************************************************************************)
(* C10                                                                     *)
(***************************************************************************)

\* C10: after the scan, each group's listing is exactly the group's file
\* records, in the file list's order.
C10_Claim ==
    ScanDone =>
        \A g \in DOMAIN site :
            /\ Listed(g) = {n \in FileIds : InGroup(n) /\ GroupOf(n) = g}
            /\ \A a, b \in 1..Len(site[g]) : a < b => site[g][a] < site[g][b]

=============================================================================
